---- MODULE Spec2Model ----
(***************************************************************************)
(* A model of the patient record store of Codes/classes.py                 *)
(* (PatientRecord, PatientDatabase), of the csv files it loads and saves,  *)
(* and of the add_patient / remove_patient handlers of Codes/functions.py. *)
(*                                                                         *)
(* Python values are modelled as records [tag, v]: tag is the Python type  *)
(* ("str", "int", "none", "list") and v the text str() gives for it.  A    *)
(* Python dict that the code iterates (patients, visits) is a sequence of  *)
(* entries [k, val] in insertion order; a dict that is only looked up      *)
(* (a visit's data, a note, a csv row) is a function on its keys.  A csv   *)
(* file is its header and its rows of cells; a cell is a string.           *)
(***************************************************************************)
EXTENDS Integers, Sequences, FiniteSets, TLC

VARIABLES
  db,         \* PatientDatabase.patients of the session's store
  dataFile,   \* the visit data file on disk
  notesFile,  \* the visit notes file on disk
  op,         \* the last call: [name, args, ret, prev], prev the call before
  pre,        \* patients as they were when the last call began
  log,        \* the add_visit calls made so far, in order
  saved,      \* the store (and columns) each file was last written from
  calls,      \* the number of calls made
  session     \* PatientApp.user_obj and the action buttons shown, once logged in

vars == <<db, dataFile, notesFile, op, pre, log, saved, calls, session>>

(***************************************************************************)
(* Python values.                                                          *)
(***************************************************************************)
None == [tag |-> "none", v |-> ""]

Str(s) == [tag |-> "str", v |-> s]

IntVal(s) == [tag |-> "int", v |-> s]

\* The list csv.DictReader stores under the key None for a row longer than
\* the header; v is the text of its first cell.
ListVal(s) == [tag |-> "list", v |-> s]

\* bool(value): None, "" and 0 are false.
Truthy(x) ==
  CASE x.tag = "none" -> FALSE
    [] x.tag = "str" -> x.v # ""
    [] x.tag = "int" -> x.v # "0"
    [] OTHER -> TRUE

\* The key None of a csv.DictReader row (restkey).
RestKey == "<None>"

\* dict.get(key, default)
DictGet(d, key, default) == IF key \in DOMAIN d THEN d[key] ELSE default

\* The dict with no key.
EmptyDict == [k \in {} |-> None]

\* dict.update(other): keys of other overwrite, the rest is kept.
DictUpdate(d, other) ==
  [k \in DOMAIN d \cup DOMAIN other |-> IF k \in DOMAIN other THEN other[k] ELSE d[k]]

(***************************************************************************)
(* Insertion-ordered dicts (patients, visits): sequences of [k, val].      *)
(***************************************************************************)
Keys(d) == {d[i].k : i \in DOMAIN d}

IndexOf(d, key) == CHOOSE i \in DOMAIN d : d[i].k = key

Lookup(d, key) == d[IndexOf(d, key)].val

\* d[key] = val: in place for a key the dict has, at the end for a new one.
Store(d, key, val) ==
  IF key \in Keys(d)
    THEN [d EXCEPT ![IndexOf(d, key)] = [k |-> key, val |-> val]]
    ELSE Append(d, [k |-> key, val |-> val])

\* d without key; the other entries keep their order.
Without(d, key) == SelectSeq(d, LAMBDA e : e.k # key)

(***************************************************************************)
(* The record model.                                                       *)
(***************************************************************************)
VisitRecord(data, notes) == [data |-> data, notes |-> notes]

PatientRecord(pid) == [patient_id |-> pid, visits |-> <<>>]

\* PatientRecord.add_visit(visit_id, data, notes); notes is <<>> for no
\* note (None) and <<n>> for the note n.
add_visit_mut_no_merge(rec, visit_id, data, notes) ==
  LET old == IF visit_id \in Keys(rec.visits)
               THEN Lookup(rec.visits, visit_id)
               ELSE VisitRecord(EmptyDict, <<>>)
  IN  [rec EXCEPT !.visits =
         Store(rec.visits, visit_id, VisitRecord(data, old.notes \o notes))]

add_visit_mut_resets_notes(rec, visit_id, data, notes) ==
  LET old == IF visit_id \in Keys(rec.visits)
               THEN Lookup(rec.visits, visit_id)
               ELSE VisitRecord(EmptyDict, <<>>)
      merged == DictUpdate(old.data, data)
  IN  [rec EXCEPT !.visits = Store(rec.visits, visit_id, VisitRecord(merged, notes))]

add_visit(rec, visit_id, data, notes) ==
  LET old == IF visit_id \in Keys(rec.visits)
               THEN Lookup(rec.visits, visit_id)
               ELSE VisitRecord(EmptyDict, <<>>)
      merged == DictUpdate(old.data, data)
  IN  [rec EXCEPT !.visits =
         Store(rec.visits, visit_id, VisitRecord(merged, old.notes \o notes))]

\* PatientRecord.add_notes_to_visit(visit_id, notes): the record afterwards
\* and the value returned.
add_notes_to_visit_mut_creates(rec, visit_id, notes) ==
  LET old == IF visit_id \in Keys(rec.visits)
               THEN Lookup(rec.visits, visit_id)
               ELSE VisitRecord(EmptyDict, <<>>)
  IN  [rec |-> [rec EXCEPT !.visits =
                  Store(rec.visits, visit_id,
                        VisitRecord(old.data, Append(old.notes, notes)))],
       ret |-> TRUE]

add_notes_to_visit(rec, visit_id, notes) ==
  IF visit_id \notin Keys(rec.visits)
    THEN [rec |-> rec, ret |-> FALSE]
    ELSE LET old == Lookup(rec.visits, visit_id)
         IN  [rec |-> [rec EXCEPT !.visits =
                         Store(rec.visits, visit_id,
                               VisitRecord(old.data, Append(old.notes, notes)))],
              ret |-> TRUE]
(***************************************************************************)
(* Text.  A string the code parses is looked at character by character:    *)
(* Chars gives the characters of each string the model uses as a date.     *)
(***************************************************************************)
Chars ==
  [s \in {"", "03/14/2024", "3/14/2024", " 03/14/2024 ", "13/40/2024",
          "02/29/2023", "01/01/2030", "2024-03-14", "3/14/24", "12/31/1999",
          "03 /14/2024"} |->
     CASE s = "" -> <<>>
       [] s = "03/14/2024" -> <<"0", "3", "/", "1", "4", "/", "2", "0", "2", "4">>
       [] s = "3/14/2024" -> <<"3", "/", "1", "4", "/", "2", "0", "2", "4">>
       [] s = " 03/14/2024 " ->
            <<" ", "0", "3", "/", "1", "4", "/", "2", "0", "2", "4", " ">>
       [] s = "13/40/2024" -> <<"1", "3", "/", "4", "0", "/", "2", "0", "2", "4">>
       [] s = "02/29/2023" -> <<"0", "2", "/", "2", "9", "/", "2", "0", "2", "3">>
       [] s = "01/01/2030" -> <<"0", "1", "/", "0", "1", "/", "2", "0", "3", "0">>
       [] s = "2024-03-14" -> <<"2", "0", "2", "4", "-", "0", "3", "-", "1", "4">>
       [] s = "3/14/24" -> <<"3", "/", "1", "4", "/", "2", "4">>
       [] s = "12/31/1999" -> <<"1", "2", "/", "3", "1", "/", "1", "9", "9", "9">>
       [] s = "03 /14/2024" ->
            <<"0", "3", " ", "/", "1", "4", "/", "2", "0", "2", "4">>]

DigitVal ==
  [c \in {"0", "1", "2", "3", "4", "5", "6", "7", "8", "9"} |->
     CASE c = "0" -> 0 [] c = "1" -> 1 [] c = "2" -> 2 [] c = "3" -> 3
       [] c = "4" -> 4 [] c = "5" -> 5 [] c = "6" -> 6 [] c = "7" -> 7
       [] c = "8" -> 8 [] c = "9" -> 9]

IsDigit(c) == c \in DOMAIN DigitVal

NonZeroDigit(c) == IsDigit(c) /\ c # "0"

\* The number a sequence of digits writes.
RECURSIVE Number(_)
Number(cs) ==
  IF cs = <<>> THEN 0
  ELSE 10 * Number(SubSeq(cs, 1, Len(cs) - 1)) + DigitVal[cs[Len(cs)]]

\* str.strip(): leading and trailing blanks removed.
RECURSIVE Strip(_)
Strip(cs) ==
  IF cs = <<>> THEN cs
  ELSE IF Head(cs) = " " THEN Strip(Tail(cs))
  ELSE IF cs[Len(cs)] = " " THEN Strip(SubSeq(cs, 1, Len(cs) - 1))
  ELSE cs

IsLeap(y) == (y % 4 = 0 /\ y % 100 # 0) \/ y % 400 = 0

DaysInMonth(y, m) ==
  CASE m \in {4, 6, 9, 11} -> 30
    [] m = 2 -> IF IsLeap(y) THEN 29 ELSE 28
    [] OTHER -> 31

NoDate == [ok |-> FALSE, y |-> 0, m |-> 0, d |-> 0]

\* The directive %m of strptime: 1[0-2]|0[1-9]|[1-9]
MatchMonth(cs) ==
  \/ Len(cs) = 2 /\ cs[1] = "1" /\ cs[2] \in {"0", "1", "2"}
  \/ Len(cs) = 2 /\ cs[1] = "0" /\ NonZeroDigit(cs[2])
  \/ Len(cs) = 1 /\ NonZeroDigit(cs[1])

\* The directive %d of strptime: 3[0-1]|[1-2]\d|0[1-9]|[1-9]| [1-9]
MatchDay(cs) ==
  \/ Len(cs) = 2 /\ cs[1] = "3" /\ cs[2] \in {"0", "1"}
  \/ Len(cs) = 2 /\ cs[1] \in {"1", "2"} /\ IsDigit(cs[2])
  \/ Len(cs) = 2 /\ cs[1] \in {"0", " "} /\ NonZeroDigit(cs[2])
  \/ Len(cs) = 1 /\ NonZeroDigit(cs[1])

\* The directive %Y of strptime: \d\d\d\d
MatchYear(cs) == Len(cs) = 4 /\ \A i \in 1..4 : IsDigit(cs[i])

\* datetime.strptime(text, "%m/%d/%Y").date() on the characters cs: the date,
\* or NoDate where strptime raises ValueError (no match, text left over, a
\* day the month does not have, the year 0).
strptime(cs) ==
  LET slash == {i \in DOMAIN cs : cs[i] = "/"}
  IN  IF Cardinality(slash) # 2 THEN NoDate
      ELSE LET s1 == CHOOSE i \in slash : \A j \in slash : i <= j
               s2 == CHOOSE i \in slash : \A j \in slash : i >= j
               mm == SubSeq(cs, 1, s1 - 1)
               dd == SubSeq(cs, s1 + 1, s2 - 1)
               yy == SubSeq(cs, s2 + 1, Len(cs))
           IN  IF ~(MatchMonth(mm) /\ MatchDay(dd) /\ MatchYear(yy)) THEN NoDate
               ELSE LET y == Number(yy)
                        m == Number(mm)
                        d == Number(Strip(dd))
                    IN  IF y >= 1 /\ d <= DaysInMonth(y, m)
                          THEN [ok |-> TRUE, y |-> y, m |-> m, d |-> d]
                          ELSE NoDate
(***************************************************************************)
(* csv files: [exists, header, rows]; a row is a sequence of cells.        *)
(***************************************************************************)
NoFile == [exists |-> FALSE, header |-> <<>>, rows |-> <<>>]

CsvFile(header, rows) == [exists |-> TRUE, header |-> header, rows |-> rows]

Range(f) == {f[i] : i \in DOMAIN f}

\* The dict csv.DictReader makes of one row: the cell of each column of the
\* header, None (restval) for a column the row is too short for, and the
\* cells beyond the header as a list under the key None (restkey).
ReadRow(header, row) ==
  [k \in Range(header) \cup (IF Len(row) > Len(header) THEN {RestKey} ELSE {}) |->
     IF k \notin Range(header) THEN ListVal(row[Len(header) + 1])
     ELSE LET last == CHOOSE i \in DOMAIN header :
                        header[i] = k /\ \A j \in DOMAIN header : header[j] = k => j <= i
          IN  IF last > Len(row) THEN None ELSE Str(row[last])]

\* The rows csv.DictReader yields: blank lines (rows of no cell) are skipped.
DictReader(file) ==
  LET kept == SelectSeq(file.rows, LAMBDA r : Len(r) > 0)
  IN  [i \in 1..Len(kept) |-> ReadRow(file.header, kept[i])]

\* What csv.writer writes for a value: nothing for None, str(value) otherwise.
CellText(x) == IF x.tag = "none" THEN "" ELSE x.v

\* csv.DictWriter._dict_to_list: the cells of a row dict in the order of
\* fieldnames, "" (restval) for a column the dict lacks.
DictToList(rowdict, fieldnames) ==
  [i \in 1..Len(fieldnames) |-> CellText(DictGet(rowdict, fieldnames[i], Str("")))]

\* The keys for which csv.DictWriter (extrasaction="raise") raises ValueError.
WrongFields(rowdict, fieldnames) == DOMAIN rowdict \ Range(fieldnames)

\* Open for writing, writeheader(), then the rows one by one: the file as it
\* is left, and whether a row raised ValueError (the rows before it are
\* written, the file stays truncated there).
WriteCsv(fieldnames, rowdicts) ==
  LET bad == {i \in DOMAIN rowdicts : WrongFields(rowdicts[i], fieldnames) # {}}
      n == IF bad = {} THEN Len(rowdicts)
           ELSE (CHOOSE i \in bad : \A j \in bad : i <= j) - 1
  IN  [file |-> CsvFile(fieldnames,
                        [i \in 1..n |-> DictToList(rowdicts[i], fieldnames)]),
       raised |-> bad # {}]

\* The concatenation of a sequence of sequences.
RECURSIVE Flatten(_)
Flatten(ss) == IF ss = <<>> THEN <<>> ELSE Head(ss) \o Flatten(Tail(ss))

(***************************************************************************)
(* PatientDatabase: patients is an ordered dict patient_id -> record.      *)
(***************************************************************************)
\* patients.setdefault(pid, PatientRecord(pid))
SetDefaultPatient(patients, pid) ==
  IF pid \in Keys(patients) THEN patients ELSE Store(patients, pid, PatientRecord(pid))

\* One row of load_data's loop.
LoadDataRow_mut_no_merge(patients, row) ==
  LET pid == DictGet(row, "Patient_ID", None)
      vid == DictGet(row, "Visit_ID", None)
      data == [k \in DOMAIN row \ {"Patient_ID", "Visit_ID"} |-> row[k]]
  IN  IF ~Truthy(pid) \/ ~Truthy(vid) THEN patients
      ELSE LET ps == SetDefaultPatient(patients, pid.v)
           IN  Store(ps, pid.v,
                     add_visit_mut_no_merge(Lookup(ps, pid.v), vid.v, data, <<>>))

LoadDataRow(patients, row) ==
  LET pid == DictGet(row, "Patient_ID", None)
      vid == DictGet(row, "Visit_ID", None)
      data == [k \in DOMAIN row \ {"Patient_ID", "Visit_ID"} |-> row[k]]
  IN  IF ~Truthy(pid) \/ ~Truthy(vid) THEN patients
      ELSE LET ps == SetDefaultPatient(patients, pid.v)
           IN  Store(ps, pid.v, add_visit(Lookup(ps, pid.v), vid.v, data, <<>>))

RECURSIVE LoadDataRows(_, _)
LoadDataRows(patients, rows) ==
  IF rows = <<>> THEN patients
  ELSE LoadDataRows(LoadDataRow(patients, Head(rows)), Tail(rows))

\* PatientDatabase.load_data(file_path), file the file at that path.
load_data(patients, file) ==
  IF ~file.exists THEN patients ELSE LoadDataRows(patients, DictReader(file))

\* One row of load_notes_data's loop.
LoadNotesRow_mut_replace(patients, row) ==
  LET pid == DictGet(row, "Patient_ID", None)
      vid == DictGet(row, "Visit_ID", None)
      note_id == DictGet(row, "Note_ID", None)
      note_text == DictGet(row, "Note_text", None)
      notes == [Note_ID |-> note_id, Note_text |-> note_text]
  IN  IF ~(Truthy(pid) /\ Truthy(vid) /\ Truthy(note_id)) THEN patients
      ELSE LET ps == SetDefaultPatient(patients, pid.v)
               patient == Lookup(ps, pid.v)
               visit == IF vid.v \in Keys(patient.visits)
                          THEN Lookup(patient.visits, vid.v)
                          ELSE VisitRecord(EmptyDict, <<>>)
           IN  Store(ps, pid.v,
                     [patient EXCEPT !.visits =
                        Store(patient.visits, vid.v,
                              [visit EXCEPT !.notes = <<notes>>])])

LoadNotesRow_mut_fresh_visit(patients, row) ==
  LET pid == DictGet(row, "Patient_ID", None)
      vid == DictGet(row, "Visit_ID", None)
      note_id == DictGet(row, "Note_ID", None)
      note_text == DictGet(row, "Note_text", None)
      notes == [Note_ID |-> note_id, Note_text |-> note_text]
  IN  IF ~(Truthy(pid) /\ Truthy(vid) /\ Truthy(note_id)) THEN patients
      ELSE LET ps == SetDefaultPatient(patients, pid.v)
               patient == Lookup(ps, pid.v)
               visit == IF vid.v \in Keys(patient.visits)
                          THEN Lookup(patient.visits, vid.v)
                          ELSE VisitRecord(EmptyDict, <<>>)
           IN  Store(ps, pid.v,
                     [patient EXCEPT !.visits =
                        Store(patient.visits, vid.v,
                              VisitRecord(EmptyDict, Append(visit.notes, notes)))])

LoadNotesRow(patients, row) ==
  LET pid == DictGet(row, "Patient_ID", None)
      vid == DictGet(row, "Visit_ID", None)
      note_id == DictGet(row, "Note_ID", None)
      note_text == DictGet(row, "Note_text", None)
      notes == [Note_ID |-> note_id, Note_text |-> note_text]
  IN  IF ~(Truthy(pid) /\ Truthy(vid) /\ Truthy(note_id)) THEN patients
      ELSE LET ps == SetDefaultPatient(patients, pid.v)
               patient == Lookup(ps, pid.v)
               visit == IF vid.v \in Keys(patient.visits)
                          THEN Lookup(patient.visits, vid.v)
                          ELSE VisitRecord(EmptyDict, <<>>)
           IN  Store(ps, pid.v,
                     [patient EXCEPT !.visits =
                        Store(patient.visits, vid.v,
                              [visit EXCEPT !.notes = Append(@, notes)])])

RECURSIVE LoadNotesRows(_, _)
LoadNotesRows(patients, rows) ==
  IF rows = <<>> THEN patients
  ELSE LoadNotesRows(LoadNotesRow(patients, Head(rows)), Tail(rows))

\* PatientDatabase.load_notes_data(file_path), file the file at that path.
load_notes_data(patients, file) ==
  IF ~file.exists THEN patients ELSE LoadNotesRows(patients, DictReader(file))

\* PatientDatabase.get_visit_data_rows()
get_visit_data_rows(patients) ==
  Flatten([p \in DOMAIN patients |->
             LET pr == patients[p].val
             IN  [i \in DOMAIN pr.visits |->
                    DictUpdate([k \in {"Patient_ID", "Visit_ID"} |->
                                  IF k = "Patient_ID" THEN Str(pr.patient_id)
                                  ELSE Str(pr.visits[i].k)],
                               pr.visits[i].val.data)]])

\* PatientDatabase.get_visit_notes_rows()
get_visit_notes_rows(patients) ==
  Flatten([p \in DOMAIN patients |->
             LET pr == patients[p].val
             IN  Flatten([i \in DOMAIN pr.visits |->
                            LET ns == pr.visits[i].val.notes
                            IN  [j \in DOMAIN ns |->
                                   DictUpdate([k \in {"Patient_ID", "Visit_ID"} |->
                                                 IF k = "Patient_ID"
                                                   THEN Str(pr.patient_id)
                                                   ELSE Str(pr.visits[i].k)],
                                              ns[j])]])])

\* The row dicts the loops of save_visit_notes hand to writer.writerow, in
\* the order they are written.
NoteRowsWritten_mut_reversed(patients) ==
  Flatten([p \in DOMAIN patients |->
             LET patient == patients[p].val
             IN  Flatten([i \in DOMAIN patient.visits |->
                            LET ns == patient.visits[i].val.notes
                            IN  [j \in DOMAIN ns |->
                                   DictUpdate([k \in {"Patient_ID", "Visit_ID"} |->
                                                 IF k = "Patient_ID"
                                                   THEN Str(patient.patient_id)
                                                   ELSE Str(patient.visits[i].k)],
                                              ns[Len(ns) + 1 - j])]])])

NoteRowsWritten(patients) ==
  Flatten([p \in DOMAIN patients |->
             LET patient == patients[p].val
             IN  Flatten([i \in DOMAIN patient.visits |->
                            LET ns == patient.visits[i].val.notes
                            IN  [j \in DOMAIN ns |->
                                   DictUpdate([k \in {"Patient_ID", "Visit_ID"} |->
                                                 IF k = "Patient_ID"
                                                   THEN Str(patient.patient_id)
                                                   ELSE Str(patient.visits[i].k)],
                                              ns[j])]])])

\* The fixed columns of the notes file.
notes_fieldnames == <<"Patient_ID", "Visit_ID", "Note_ID", "Note_text">>

\* PatientDatabase.save_visit_data(file_path, fieldnames): [file, raised]
save_visit_data(patients, fieldnames) ==
  WriteCsv(fieldnames, get_visit_data_rows(patients))

\* PatientDatabase.save_visit_notes(file_path): [file, raised]
save_visit_notes(patients) ==
  WriteCsv(notes_fieldnames, NoteRowsWritten(patients))
(***************************************************************************)
(* Values returned (or raised) by the operations.                          *)
(***************************************************************************)
RetNone == [kind |-> "None", val |-> 0]

RetBool(b) == [kind |-> "bool", val |-> b]

RetInt(n) == [kind |-> "int", val |-> n]

RetList(l) == [kind |-> "list", val |-> l]

Raise(exc) == [kind |-> "raise", val |-> exc]

\* PatientDatabase.remove_patient(patient_id): [patients, ret]
remove_patient_mut_always_true(patients, patient_id) ==
  [patients |-> Without(patients, patient_id), ret |-> RetBool(TRUE)]

remove_patient(patients, patient_id) ==
  [patients |-> Without(patients, patient_id),
   ret |-> RetBool(patient_id \in Keys(patients))]

\* The inner loop of retrieve_patient_info over the notes of one visit.
RECURSIVE RetrieveNotes(_, _, _)
RetrieveNotes(notes, info_key, result) ==
  IF notes = <<>> THEN result
  ELSE RetrieveNotes(Tail(notes), info_key,
                     IF info_key \in DOMAIN Head(notes)
                       THEN Append(result, Head(notes)[info_key])
                       ELSE result)

\* The outer loop of retrieve_patient_info over the visits of the record.
RECURSIVE RetrieveVisits(_, _, _)
RetrieveVisits(visits, info_key, result) ==
  IF visits = <<>> THEN result
  ELSE LET vr == Head(visits).val
           r1 == IF info_key \in DOMAIN vr.data
                   THEN Append(result, vr.data[info_key])
                   ELSE result
       IN  RetrieveVisits(Tail(visits), info_key,
                          RetrieveNotes(vr.notes, info_key, r1))

\* PatientDatabase.retrieve_patient_info(patient_id, info_key)
retrieve_patient_info_mut_empty_for_absent(patients, patient_id, info_key) ==
  IF patient_id \notin Keys(patients) THEN RetList(<<>>)
  ELSE RetList(RetrieveVisits(Lookup(patients, patient_id).visits, info_key, <<>>))

retrieve_patient_info(patients, patient_id, info_key) ==
  IF patient_id \notin Keys(patients) THEN RetNone
  ELSE RetList(RetrieveVisits(Lookup(patients, patient_id).visits, info_key, <<>>))

\* The data dicts of all visits in the order count_visits_in_day scans them.
AllVisitData(patients) ==
  Flatten([p \in DOMAIN patients |->
             [i \in DOMAIN patients[p].val.visits |->
                patients[p].val.visits[i].val.data]])

\* The loop of count_visits_in_day.  vr.data.get("Visit_time", "").strip()
\* raises AttributeError for a value that is no str (None has no strip).
RECURSIVE CountLoop(_, _, _)
CountLoop(datas, target, total) ==
  IF datas = <<>> THEN RetInt(total)
  ELSE LET vt == DictGet(Head(datas), "Visit_time", Str(""))
       IN  IF vt.tag # "str" THEN Raise("AttributeError")
           ELSE LET visit_date == strptime(Strip(Chars[vt.v]))
                IN  CountLoop(Tail(datas), target,
                              IF visit_date.ok /\ visit_date = target
                                THEN total + 1 ELSE total)

\* PatientDatabase.count_visits_in_day(day_str)
count_visits_in_day(patients, day_str) ==
  LET target == strptime(Strip(Chars[day_str]))
  IN  IF ~target.ok THEN RetNone
      ELSE CountLoop(AllVisitData(patients), target, 0)

(***************************************************************************)
(* The handlers of functions.py.  What the user answers to the prompts is  *)
(* the handler's input: pid ("" for a cancelled or empty answer), pair     *)
(* (<<>> for a cancelled collect_visit_data, <<[data, notes]>> otherwise), *)
(* vid (the uuid drawn), confirm (the answer to askyesno).  The result is  *)
(* the store, the two files, and which saves completed.                    *)
(***************************************************************************)
HandlerResult(patients, data_file, notes_file, savedData, savedNotes, raised) ==
  [patients |-> patients, dataFile |-> data_file, notesFile |-> notes_file,
   ret |-> [kind |-> "handler", savedData |-> savedData,
            savedNotes |-> savedNotes, raised |-> raised]]

\* save_visit_data then save_visit_notes, as both handlers end: the second
\* is not reached when the first raises.
SaveBoth(patients, data_file, notes_file, data_fieldnames) ==
  LET sd == save_visit_data(patients, data_fieldnames)
      sn == save_visit_notes(patients)
  IN  IF sd.raised
        THEN HandlerResult(patients, sd.file, notes_file, FALSE, FALSE, TRUE)
      ELSE IF sn.raised
        THEN HandlerResult(patients, sd.file, sn.file, TRUE, FALSE, TRUE)
      ELSE HandlerResult(patients, sd.file, sn.file, TRUE, TRUE, FALSE)

\* functions.add_patient
handler_add_patient(patients, data_file, notes_file, data_fieldnames, pid, pair, vid) ==
  IF pid = "" THEN HandlerResult(patients, data_file, notes_file, FALSE, FALSE, FALSE)
  ELSE LET ps == IF pid \in Keys(patients) THEN patients
                 ELSE Store(patients, pid, PatientRecord(pid))
       IN  IF pair = <<>>
             THEN HandlerResult(ps, data_file, notes_file, FALSE, FALSE, FALSE)
           ELSE SaveBoth(Store(ps, pid,
                               add_visit(Lookup(ps, pid), vid, pair[1].data,
                                         <<pair[1].notes>>)),
                         data_file, notes_file, data_fieldnames)

\* functions.remove_patient
handler_remove_patient(patients, data_file, notes_file, data_fieldnames, pid, confirm) ==
  IF pid = "" \/ ~confirm
    THEN HandlerResult(patients, data_file, notes_file, FALSE, FALSE, FALSE)
  ELSE SaveBoth(remove_patient(patients, pid).patients,
                data_file, notes_file, data_fieldnames)

\* The columns PatientApp.dispatch_user passes to the handlers.
data_fieldnames ==
  <<"Patient_ID", "Visit_ID", "Visit_time", "Visit_department", "Race", "Gender",
    "Ethnicity", "Age", "Zip_code", "Insurance", "Chief_complaint", "Note_ID",
    "Note_type">>
(***************************************************************************)
(* functions.show_temporal_trends: the visits per year.  What the user is  *)
(* shown is the result: the "No Data" message, or the table of (year,      *)
(* count) rows.                                                            *)
(***************************************************************************)
NoDataShown == [kind |-> "No Data", val |-> <<>>]

TableShown(pairs) == [kind |-> "table", val |-> pairs]

\* The aggregation loop: year_counts is a dict year -> count in insertion
\* order.  vs.strip() raises AttributeError for a truthy value that is no
\* str.
RECURSIVE TrendLoop(_, _)
TrendLoop(rows, year_counts) ==
  IF rows = <<>> THEN [raised |-> FALSE, year_counts |-> year_counts]
  ELSE LET vs == DictGet(Head(rows), "Visit_time", None)
       IN  IF ~Truthy(vs) THEN TrendLoop(Tail(rows), year_counts)
           ELSE IF vs.tag # "str" THEN [raised |-> TRUE, year_counts |-> year_counts]
           ELSE LET visit_date == strptime(Strip(Chars[vs.v]))
                    year == visit_date.y
                    had == IF year \in Keys(year_counts)
                             THEN Lookup(year_counts, year) ELSE 0
                IN  IF ~visit_date.ok THEN TrendLoop(Tail(rows), year_counts)
                    ELSE TrendLoop(Tail(rows), Store(year_counts, year, had + 1))

\* sorted(keys): the keys in ascending order.
RECURSIVE Sorted(_)
Sorted(S) ==
  IF S = {} THEN <<>>
  ELSE LET least == CHOOSE x \in S : \A y \in S : x <= y
       IN  <<least>> \o Sorted(S \ {least})

show_temporal_trends_mut_unsorted(patients) ==
  LET r == TrendLoop(get_visit_data_rows(patients), <<>>)
      years == [i \in DOMAIN r.year_counts |-> r.year_counts[i].k]
  IN  IF r.raised THEN Raise("AttributeError")
      ELSE IF r.year_counts = <<>> THEN NoDataShown
      ELSE TableShown([i \in DOMAIN years |->
                         <<years[i], Lookup(r.year_counts, years[i])>>])

show_temporal_trends(patients) ==
  LET r == TrendLoop(get_visit_data_rows(patients), <<>>)
      years == Sorted(Keys(r.year_counts))
  IN  IF r.raised THEN Raise("AttributeError")
      ELSE IF r.year_counts = <<>> THEN NoDataShown
      ELSE TableShown([i \in DOMAIN years |->
                         <<years[i], Lookup(r.year_counts, years[i])>>])

(***************************************************************************)
(* functions.view_notes: the notes of a patient's visits on a date.  The   *)
(* date of a visit is derived here by split("/") and int(), not strptime.  *)
(***************************************************************************)
\* str.split(sep): the pieces between the separators.
RECURSIVE SplitFrom(_, _, _)
SplitFrom(cs, sep, piece) ==
  IF cs = <<>> THEN <<piece>>
  ELSE IF Head(cs) = sep THEN <<piece>> \o SplitFrom(Tail(cs), sep, <<>>)
  ELSE SplitFrom(Tail(cs), sep, Append(piece, Head(cs)))

Split(cs, sep) == SplitFrom(cs, sep, <<>>)

\* int(text): blanks around are dropped, a sign is allowed, then digits with
\* single underscores between them; anything else raises ValueError.
IntOf(cs) ==
  LET s == Strip(cs)
      signed == s # <<>> /\ Head(s) \in {"+", "-"}
      body == IF signed THEN Tail(s) ELSE s
      digits == SelectSeq(body, IsDigit)
      wellFormed ==
        /\ body # <<>>
        /\ IsDigit(body[1])
        /\ IsDigit(body[Len(body)])
        /\ \A i \in DOMAIN body : IsDigit(body[i]) \/ body[i] = "_"
        /\ \A i \in 1..(Len(body) - 1) : ~(body[i] = "_" /\ body[i + 1] = "_")
  IN  IF ~wellFormed THEN [ok |-> FALSE, n |-> 0]
      ELSE [ok |-> TRUE,
            n |-> IF signed /\ Head(s) = "-" THEN 0 - Number(digits) ELSE Number(digits)]

\* datetime.date(year, month, day): ValueError outside the calendar.
date(year, month, day) ==
  IF /\ year >= 1 /\ year <= 9999
     /\ month >= 1 /\ month <= 12
     /\ day >= 1 /\ day <= DaysInMonth(year, month)
    THEN [ok |-> TRUE, y |-> year, m |-> month, d |-> day]
    ELSE NoDate

\* month, day, year = map(int, visit_time.split("/")); date(year, month, day):
\* NoDate where any of it raises.
VisitDateViewed(cs) ==
  LET parts == Split(cs, "/")
  IN  IF Len(parts) # 3 THEN NoDate
      ELSE IF ~(IntOf(parts[1]).ok /\ IntOf(parts[2]).ok /\ IntOf(parts[3]).ok)
        THEN NoDate
      ELSE date(IntOf(parts[3]).n, IntOf(parts[1]).n, IntOf(parts[2]).n)

\* The lines appended to notes_text for the notes of one visit: the visit,
\* the note's id and the visit's note type.  note.get("Note_text", "")
\* .strip() raises AttributeError for a text that is no str.
NoteLines(vid, visit) ==
  [j \in DOMAIN visit.notes |->
     [vid |-> vid,
      note_id |-> DictGet(visit.notes[j], "Note_ID", Str("N/A")),
      note_type |-> DictGet(visit.data, "Note_type", Str("N/A"))]]

NoteTextRaises(visit) ==
  \E j \in DOMAIN visit.notes :
    DictGet(visit.notes[j], "Note_text", Str("")).tag # "str"

\* The loop of view_notes over the visits of the record.
RECURSIVE ViewLoop(_, _, _)
ViewLoop(visits, target_date, notes_text) ==
  IF visits = <<>>
    THEN IF notes_text = <<>> THEN [kind |-> "No Notes", val |-> <<>>]
         ELSE [kind |-> "notes", val |-> notes_text]
  ELSE LET visit == Head(visits).val
           visit_time == DictGet(visit.data, "Visit_time", Str(""))
       IN  IF visit_time.tag # "str" THEN Raise("AttributeError")
           ELSE LET visit_date == VisitDateViewed(Strip(Chars[visit_time.v]))
                IN  IF ~(visit_date.ok /\ visit_date = target_date /\ visit.notes # <<>>)
                      THEN ViewLoop(Tail(visits), target_date, notes_text)
                    ELSE IF NoteTextRaises(visit) THEN Raise("AttributeError")
                    ELSE ViewLoop(Tail(visits), target_date,
                                  notes_text \o NoteLines(Head(visits).k, visit))

\* view_notes with the answers pid (the id typed, "" for none) and ds (what
\* prompt_date returned, <<>> for a cancelled prompt, <<day>> otherwise).
view_notes(patients, pid, ds) ==
  IF pid = "" THEN [kind |-> "cancelled", val |-> <<>>]
  ELSE IF pid \notin Keys(patients) THEN [kind |-> "No records", val |-> <<>>]
  ELSE IF ds = <<>> THEN [kind |-> "cancelled", val |-> <<>>]
  ELSE LET target_date == strptime(Strip(Chars[ds[1]]))
       IN  IF ~target_date.ok THEN [kind |-> "Invalid Date", val |-> <<>>]
           ELSE ViewLoop(Lookup(patients, pid).visits, target_date, <<>>)

(***************************************************************************)
(* Users and credentials.  The texts of the credentials file and of the    *)
(* login form are sequences of characters; a character outside ASCII is    *)
(* written as its code point ("U+00E4").                                   *)
(***************************************************************************)
UpperCase ==
  <<"A", "B", "C", "D", "E", "F", "G", "H", "I", "J", "K", "L", "M",
    "N", "O", "P", "Q", "R", "S", "T", "U", "V", "W", "X", "Y", "Z">>

LowerCase ==
  <<"a", "b", "c", "d", "e", "f", "g", "h", "i", "j", "k", "l", "m",
    "n", "o", "p", "q", "r", "s", "t", "u", "v", "w", "x", "y", "z">>

\* str.lower()
Lower(cs) ==
  [i \in DOMAIN cs |->
     IF cs[i] \in Range(UpperCase)
       THEN LowerCase[CHOOSE j \in DOMAIN UpperCase : UpperCase[j] = cs[i]]
       ELSE cs[i]]

IsAscii(cs) == \A i \in DOMAIN cs : cs[i] # "U+00E4"

\* hmac.compare_digest(a, b) on two str: TypeError unless both are ASCII.
compare_digest(a, b) ==
  IF IsAscii(a) /\ IsAscii(b) THEN RetBool(a = b) ELSE Raise("TypeError")

\* The get_actions() of the four user classes; NurseUser inherits
\* ClinicianUser's.
get_actions(cls) ==
  CASE cls = "AdminUser" -> <<"count_visits">>
    [] cls = "ManagerUser" -> <<"show_temporal_trends">>
    [] cls \in {"ClinicianUser", "NurseUser"} ->
         <<"add_patient", "remove_patient", "retrieve_patient", "count_visits",
           "view_note">>

\* User.can_execute(cmd)
can_execute(cls, cmd) == cmd \in Range(get_actions(cls))

\* The rows loop of CredentialsManager._load: row[...].strip() raises
\* AttributeError for a cell the row is too short for (None).
RECURSIVE LoadCredentialRows(_, _)
LoadCredentialRows(rows, credentials) ==
  IF rows = <<>> THEN [raised |-> "", credentials |-> credentials]
  ELSE LET row == Head(rows)
       IN  IF \E k \in {"username", "password", "role"} : row[k].tag # "str"
             THEN [raised |-> "AttributeError", credentials |-> credentials]
           ELSE LET user == Lower(Strip(row["username"].v))
                    pwd == Strip(row["password"].v)
                    role == Strip(row["role"].v)
                IN  LoadCredentialRows(
                      Tail(rows),
                      IF user # <<>> /\ pwd # <<>> /\ role # <<>>
                        THEN Store(credentials, user, [password |-> pwd, role |-> role])
                        ELSE credentials)

\* CredentialsManager(file_path)._load(): the table, or what is raised.
_load(file) ==
  IF ~file.exists THEN [raised |-> "FileNotFoundError", credentials |-> <<>>]
  ELSE IF ~({"username", "password", "role"} \subseteq Range(file.header))
    THEN [raised |-> "ValueError", credentials |-> <<>>]
  ELSE LoadCredentialRows(DictReader(file), <<>>)

RetStr(cs) == [kind |-> "str", val |-> cs]

\* CredentialsManager.authenticate(username, password)
authenticate(credentials, username, password) ==
  LET key == Lower(Strip(username))
  IN  IF key \notin Keys(credentials) THEN RetNone
      ELSE LET cred == Lookup(credentials, key)
               same == compare_digest(cred.password, password)
           IN  IF same.kind = "raise" THEN same
               ELSE IF same.val THEN RetStr(cred.role)
               ELSE RetNone

(***************************************************************************)
(* main.py: the login and the dispatch of the actions.                     *)
(***************************************************************************)
\* ROLE_MAP.get(role): the user class of a role, "" for none.
ROLE_MAP(role) ==
  CASE role = <<"m", "a", "n", "a", "g", "e", "m", "e", "n", "t">> -> "ManagerUser"
    [] role = <<"a", "d", "m", "i", "n">> -> "AdminUser"
    [] role = <<"c", "l", "i", "n", "i", "c", "i", "a", "n">> -> "ClinicianUser"
    [] role = <<"n", "u", "r", "s", "e">> -> "NurseUser"
    [] OTHER -> ""

\* PatientApp.show_actions: one button for each action of the user.
show_actions_mut_all_buttons(cls) ==
  <<"add_patient", "remove_patient", "retrieve_patient", "count_visits",
    "view_note", "show_temporal_trends">>

show_actions(cls) == get_actions(cls)

\* PatientApp.execute_action(action): the handler it calls, "" for none.
execute_action(action) ==
  CASE action = "add_patient" -> "handler_add_patient"
    [] action = "remove_patient" -> "handler_remove_patient"
    [] action = "retrieve_patient" -> "retrieve_patient_info"
    [] action = "count_visits" -> "count_visits_in_day"
    [] action = "view_note" -> "view_notes"
    [] action = "show_temporal_trends" -> "show_temporal_trends"
    [] OTHER -> ""

\* PatientApp.authenticate and dispatch_user with cm, the outcome of
\* CredentialsManager(users_file), and the two entries of the form: how the
\* login ends, what authenticate returned, and the user object made.
\* FileNotFoundError and ValueError of the load are caught; any other
\* exception leaves the callback.
login(cm, username_entry, password_entry) ==
  LET username == Strip(username_entry)
      password == Strip(password_entry)
      role == authenticate(cm.credentials, username, password)
      cls == ROLE_MAP(Lower(role.val))
  IN  IF cm.raised \in {"FileNotFoundError", "ValueError"}
        THEN [outcome |-> "load_credentials_error", auth |-> RetNone, user |-> <<>>]
      ELSE IF cm.raised # ""
        THEN [outcome |-> "raised", auth |-> RetNone, user |-> <<>>]
      ELSE IF role.kind = "raise"
        THEN [outcome |-> "raised", auth |-> role, user |-> <<>>]
      ELSE IF role.kind = "None"
        THEN [outcome |-> "login_failed", auth |-> role, user |-> <<>>]
      ELSE IF cls = ""
        THEN [outcome |-> "unsupported_role", auth |-> role, user |-> <<>>]
      ELSE [outcome |-> "login_success", auth |-> role,
            user |-> <<[cls |-> cls, username |-> username,
                        role |-> Lookup(cm.credentials, Lower(username)).role]>>]

(***************************************************************************)
(* Bounds and the inputs the calls are given.                              *)
(***************************************************************************)
MaxRecordCalls == 3

MaxStoreCalls == 4

MaxAppCalls == 4

Pids == {"p1", "p2"}

Vids == {"v1", "v2"}

Note1 == [Note_ID |-> Str("n1"), Note_text |-> Str("fever")]

Note2 == [Note_ID |-> Str("n2"), Note_text |-> Str("")]

\* The data dicts add_visit is called with.
RecordData ==
  {[Visit_time |-> Str("03/14/2024"), Race |-> Str("Asian")],
   [Visit_time |-> Str("01/01/2030"), Age |-> IntVal("30")],
   [Age |-> IntVal("41")]}

\* Visit data files: a plain one; one with a short row, a blank line and a
\* row without Patient_ID; one with a column the application's column list
\* does not have, a repeated (patient, visit), a row without Visit_ID and a
\* row longer than the header.
DataFile1 ==
  CsvFile(<<"Patient_ID", "Visit_ID", "Visit_time", "Note_ID">>,
          <<<<"p1", "v1", "03/14/2024", "n1">>,
            <<"p1", "v2", " 03/14/2024 ", "n7">>,
            <<"p2", "v1", "13/40/2024", "n2">>>>)

DataFile2 ==
  CsvFile(<<"Patient_ID", "Visit_ID", "Visit_time">>,
          <<<<"p2", "v2">>,
            <<>>,
            <<"", "v1", "01/01/2030">>,
            <<"p1", "v1", "3/14/2024">>>>)

DataFile3 ==
  CsvFile(<<"Patient_ID", "Visit_ID", "Visit_time", "Ward">>,
          <<<<"p1", "v1", "01/01/2030", "W1">>,
            <<"p1", "v1", "02/29/2023", "W2">>,
            <<"p2", "", "01/01/2030", "W0">>,
            <<"p2", "v1", "3/14/2024", "W3", "zz">>>>)

DataFiles == {NoFile, DataFile1, DataFile2, DataFile3}

\* Visit notes files: a plain one; one with a visit no data file has, a short
\* row, a row without Note_ID, a row without Patient_ID and a blank line.
NotesFile1 ==
  CsvFile(notes_fieldnames,
          <<<<"p1", "v1", "n1", "fever">>,
            <<"p2", "v1", "n2", "">>,
            <<"p1", "v1", "n3", "rash">>>>)

NotesFile2 ==
  CsvFile(notes_fieldnames,
          <<<<"p2", "v9", "n4", "cough">>,
            <<"p1", "v1", "n5">>,
            <<"p1", "v1", "", "lost">>,
            <<"", "v1", "n6", "lost">>,
            <<>>>>)

NotesFiles == {NoFile, NotesFile1, NotesFile2}

\* What collect_visit_data returns for a form filled in completely.
VisitPair ==
  [data |-> [Visit_time |-> Str("03/14/2024"), Visit_department |-> Str("Er"),
             Race |-> Str("Asian"), Gender |-> Str("Female"),
             Ethnicity |-> Str("Hispanic"), Age |-> IntVal("30"),
             Zip_code |-> Str("27701"), Insurance |-> Str("Medicare"),
             Chief_complaint |-> Str("Cough"), Note_ID |-> Str("u9"),
             Note_type |-> Str("Triage")],
   notes |-> [Note_ID |-> Str("u9"), Note_text |-> Str("dry cough")]]

\* The column lists save_visit_data is called with.
ColumnOrders == {data_fieldnames, <<"Patient_ID", "Visit_ID", "Visit_time", "Ward">>}

\* The answers given to the prompts of add_patient and remove_patient.
AddPatientAnswers ==
  {[pid |-> "", pair |-> <<>>],
   [pid |-> "p1", pair |-> <<>>], [pid |-> "p1", pair |-> <<VisitPair>>],
   [pid |-> "p3", pair |-> <<>>], [pid |-> "p3", pair |-> <<VisitPair>>]}

RemovePatientAnswers ==
  {[pid |-> "", confirm |-> TRUE], [pid |-> "p1", confirm |-> FALSE],
   [pid |-> "p1", confirm |-> TRUE], [pid |-> "p3", confirm |-> TRUE]}

QueryPids == {"p1", "p2", "p3"}

QueryKeys == {"Visit_time", "Note_ID", "Race"}

QueryDays == {"03/14/2024", " 03/14/2024 ", "3/14/2024", "01/01/2030",
              "13/40/2024", "02/29/2023", "2024-03-14", "3/14/24", ""}

MaxQueryCalls == 3

MaxGrowCalls == 4

\* The data dicts of the visits added before the store is queried by date.
QueryData ==
  {[Visit_time |-> Str("12/31/1999")], [Visit_time |-> Str("01/01/2030")],
   [Visit_time |-> Str("3/14/24")], [Visit_time |-> Str("03 /14/2024")]}

\* What prompt_date returns: dates written as %m/%d/%Y.
PromptedDays == {"03/14/2024", "01/01/2030", "12/31/1999"}

\* The answers given to the prompts of view_notes.
ViewNotesAnswers ==
  {[pid |-> "", ds |-> <<>>], [pid |-> "p3", ds |-> <<>>], [pid |-> "p1", ds |-> <<>>]}
    \cup {[pid |-> pid, ds |-> <<day>>] : pid \in Pids, day \in PromptedDays}

MaxSessionCalls == 4

\* Credentials files: one with an index column, names and roles in mixed
\* case and with blanks around, a role the application has no class for, a
\* row without password and a blank line; one without the role column; one
\* with a row too short for its header.
\* The characters of the texts of the credentials files and the login form.
CredChars ==
  [s \in {"", "1", "2", "3", "4", "5", "6", " Alice ", "s3cret",
          "Admin", "bob", "pw", "nurse ", "Dave", "Management", "erin",
          "clinician", "frank", "janitor", "gina", "admin", "alice",
          " ALICE ", "dave", "zoe", "pU+00E4ss"} |->
     CASE s = "" -> <<>>
       [] s = "1" -> <<"1">>
       [] s = "2" -> <<"2">>
       [] s = "3" -> <<"3">>
       [] s = "4" -> <<"4">>
       [] s = "5" -> <<"5">>
       [] s = "6" -> <<"6">>
       [] s = " Alice " -> <<" ", "A", "l", "i", "c", "e", " ">>
       [] s = "s3cret" -> <<"s", "3", "c", "r", "e", "t">>
       [] s = "Admin" -> <<"A", "d", "m", "i", "n">>
       [] s = "bob" -> <<"b", "o", "b">>
       [] s = "pw" -> <<"p", "w">>
       [] s = "nurse " -> <<"n", "u", "r", "s", "e", " ">>
       [] s = "Dave" -> <<"D", "a", "v", "e">>
       [] s = "Management" -> <<"M", "a", "n", "a", "g", "e", "m", "e", "n", "t">>
       [] s = "erin" -> <<"e", "r", "i", "n">>
       [] s = "clinician" -> <<"c", "l", "i", "n", "i", "c", "i", "a", "n">>
       [] s = "frank" -> <<"f", "r", "a", "n", "k">>
       [] s = "janitor" -> <<"j", "a", "n", "i", "t", "o", "r">>
       [] s = "gina" -> <<"g", "i", "n", "a">>
       [] s = "admin" -> <<"a", "d", "m", "i", "n">>
       [] s = "alice" -> <<"a", "l", "i", "c", "e">>
       [] s = " ALICE " -> <<" ", "A", "L", "I", "C", "E", " ">>
       [] s = "dave" -> <<"d", "a", "v", "e">>
       [] s = "zoe" -> <<"z", "o", "e">>
       [] s = "pU+00E4ss" -> <<"p", "U+00E4", "s", "s">>]

CredFile1 ==
  CsvFile(<<"id", "username", "password", "role">>,
          <<<<CredChars["1"], CredChars[" Alice "], CredChars["s3cret"], CredChars["Admin"]>>,
            <<CredChars["2"], CredChars["bob"], CredChars["pw"], CredChars["nurse "]>>,
            <<CredChars["3"], CredChars["Dave"], CredChars["pw"], CredChars["Management"]>>,
            <<CredChars["4"], CredChars["erin"], CredChars["pw"], CredChars["clinician"]>>,
            <<>>,
            <<CredChars["5"], CredChars["frank"], CredChars["pw"], CredChars["janitor"]>>,
            <<CredChars["6"], CredChars["gina"], CredChars[""], CredChars["admin"]>>>>)

CredFile2 == CsvFile(<<"username", "password">>, <<<<CredChars["alice"], CredChars["s3cret"]>>>>)

CredFile3 ==
  CsvFile(<<"username", "password", "role">>,
          <<<<CredChars["alice"], CredChars["s3cret"], CredChars["admin"]>>,
            <<CredChars["bob"], CredChars["pw"]>>>>)

CredFiles == {NoFile, CredFile1, CredFile2, CredFile3}

\* CredentialsManager(file) for each of the files: its table, or what the
\* constructor raised.
CredentialsManager == [file \in CredFiles |-> _load(file)]

\* What is typed as username and as password.
TypedUsernames ==
  {CredChars[" ALICE "],
   CredChars["bob"],
   CredChars["dave"],
   CredChars["erin"],
   CredChars["frank"],
   CredChars["zoe"]}

TypedPasswords ==
  {CredChars["s3cret"],
   CredChars["pw"],
   CredChars["pU+00E4ss"],
   CredChars[""]}

\* The logins tried: each user of the first file with the right password,
\* one with blanks around the name, a wrong and a non-ASCII password, an
\* unknown user, and a login with each of the other files.
Attempt(file, username, password) ==
  [file |-> file, username |-> CredChars[username], password |-> CredChars[password]]

LoginAttempts ==
  {Attempt(CredFile1, " ALICE ", "s3cret"), Attempt(CredFile1, "bob", "pw"),
   Attempt(CredFile1, "dave", "pw"), Attempt(CredFile1, "erin", "pw"),
   Attempt(CredFile1, "frank", "pw"), Attempt(CredFile1, "bob", "s3cret"),
   Attempt(CredFile1, "bob", "pU+00E4ss"), Attempt(CredFile1, "zoe", "pw"),
   Attempt(NoFile, "bob", "pw"), Attempt(CredFile2, "alice", "s3cret"),
   Attempt(CredFile3, "bob", "pw")}

\* The fields retrieve_patient offers (two of them).
RetrieveFields == {"Visit_time", "Race"}

(***************************************************************************)
(* The calls.                                                              *)
(***************************************************************************)
Call(name, args, ret) ==
  [name |-> name, args |-> args, ret |-> ret,
   prev |-> [name |-> op.name, args |-> op.args, ret |-> op.ret]]

NoCall == [name |-> "init", args |-> <<>>, ret |-> RetNone,
           prev |-> [name |-> "init", args |-> <<>>, ret |-> RetNone]]

NothingSaved == [data |-> <<>>, notes |-> <<>>]

\* No user is logged in: the login form is shown.
NoSession == [user |-> <<>>, buttons |-> <<>>]

\* db.get_patient(pid).add_visit(vid, data, notes) on a patient of the store
AddVisit(pid, vid, data, notes) ==
  /\ pid \in Keys(db)
  /\ db' = Store(db, pid, add_visit(Lookup(db, pid), vid, data, notes))
  /\ op' = Call("add_visit", <<pid, vid, data, notes>>, RetNone)
  /\ log' = Append(log, [pid |-> pid, vid |-> vid, data |-> data])
  /\ pre' = db
  /\ calls' = calls + 1
  /\ UNCHANGED <<dataFile, notesFile, saved>>
  /\ UNCHANGED session

\* db.get_patient(pid).add_notes_to_visit(vid, note)
AddNotesToVisit(pid, vid, note) ==
  /\ pid \in Keys(db)
  /\ LET r == add_notes_to_visit(Lookup(db, pid), vid, note)
     IN  /\ db' = Store(db, pid, r.rec)
         /\ op' = Call("add_notes_to_visit", <<pid, vid, note>>, RetBool(r.ret))
  /\ pre' = db
  /\ calls' = calls + 1
  /\ UNCHANGED <<dataFile, notesFile, log, saved>>
  /\ UNCHANGED session

\* db.load_data(path), file the file at path
LoadData(file) ==
  /\ db' = load_data(db, file)
  /\ op' = Call("load_data", <<file>>, RetNone)
  /\ pre' = db
  /\ calls' = calls + 1
  /\ UNCHANGED <<dataFile, notesFile, log, saved>>
  /\ UNCHANGED session

\* db.load_notes_data(path), file the file at path
LoadNotesData(file) ==
  /\ db' = load_notes_data(db, file)
  /\ op' = Call("load_notes_data", <<file>>, RetNone)
  /\ pre' = db
  /\ calls' = calls + 1
  /\ UNCHANGED <<dataFile, notesFile, log, saved>>
  /\ UNCHANGED session

\* db.remove_patient(pid)
RemovePatient(pid) ==
  /\ LET r == remove_patient(db, pid)
     IN  /\ db' = r.patients
         /\ op' = Call("remove_patient", <<pid>>, r.ret)
  /\ pre' = db
  /\ calls' = calls + 1
  /\ UNCHANGED <<dataFile, notesFile, log, saved>>
  /\ UNCHANGED session

\* db.retrieve_patient_info(pid, key)
RetrievePatientInfo(pid, key) ==
  /\ op' = Call("retrieve_patient_info", <<pid, key>>,
                retrieve_patient_info(db, pid, key))
  /\ pre' = db
  /\ calls' = calls + 1
  /\ UNCHANGED <<db, dataFile, notesFile, log, saved>>
  /\ UNCHANGED session

\* db.count_visits_in_day(day)
CountVisitsInDay(day) ==
  /\ op' = Call("count_visits_in_day", <<day>>, count_visits_in_day(db, day))
  /\ pre' = db
  /\ calls' = calls + 1
  /\ UNCHANGED <<db, dataFile, notesFile, log, saved>>
  /\ UNCHANGED session

\* db.save_visit_data(data_file, fieldnames)
SaveVisitData(fieldnames) ==
  /\ LET r == save_visit_data(db, fieldnames)
     IN  /\ dataFile' = r.file
         /\ op' = Call("save_visit_data", <<fieldnames>>,
                       IF r.raised THEN Raise("ValueError") ELSE RetNone)
         /\ saved' = [saved EXCEPT !.data =
                        IF r.raised THEN <<>>
                        ELSE <<[patients |-> db, fieldnames |-> fieldnames]>>]
  /\ pre' = db
  /\ calls' = calls + 1
  /\ UNCHANGED <<db, notesFile, log>>
  /\ UNCHANGED session

\* db.save_visit_notes(notes_file)
SaveVisitNotes ==
  /\ LET r == save_visit_notes(db)
     IN  /\ notesFile' = r.file
         /\ op' = Call("save_visit_notes", <<>>,
                       IF r.raised THEN Raise("ValueError") ELSE RetNone)
         /\ saved' = [saved EXCEPT !.notes =
                        IF r.raised THEN <<>> ELSE <<[patients |-> db]>>]
  /\ pre' = db
  /\ calls' = calls + 1
  /\ UNCHANGED <<db, dataFile, log>>
  /\ UNCHANGED session

\* PatientApp.dispatch_user: a fresh PatientDatabase, load_data of the data
\* file, then load_notes_data of the notes file.
DispatchUser ==
  /\ db' = load_notes_data(load_data(<<>>, dataFile), notesFile)
  /\ op' = Call("dispatch_user", <<>>, RetNone)
  /\ pre' = db
  /\ calls' = calls + 1
  /\ UNCHANGED <<dataFile, notesFile, log, saved>>
  /\ UNCHANGED session

\* What the handlers' saves leave in saved.
SavedBy(r, patients) ==
  [data |-> IF r.ret.savedData
              THEN <<[patients |-> patients, fieldnames |-> data_fieldnames]>>
            ELSE IF r.dataFile # dataFile THEN <<>> ELSE saved.data,
   notes |-> IF r.ret.savedNotes THEN <<[patients |-> patients]>>
             ELSE IF r.notesFile # notesFile THEN <<>> ELSE saved.notes]

\* execute_action("add_patient")
AddPatientHandler(pid, pair, vid) ==
  /\ LET r == handler_add_patient(db, dataFile, notesFile, data_fieldnames,
                                  pid, pair, vid)
     IN  /\ db' = r.patients
         /\ dataFile' = r.dataFile
         /\ notesFile' = r.notesFile
         /\ op' = Call("handler_add_patient", <<pid, pair, vid>>, r.ret)
         /\ saved' = SavedBy(r, r.patients)
  /\ pre' = db
  /\ calls' = calls + 1
  /\ UNCHANGED log
  /\ UNCHANGED session

\* execute_action("remove_patient")
RemovePatientHandler(pid, confirm) ==
  /\ LET r == handler_remove_patient(db, dataFile, notesFile, data_fieldnames,
                                     pid, confirm)
     IN  /\ db' = r.patients
         /\ dataFile' = r.dataFile
         /\ notesFile' = r.notesFile
         /\ op' = Call("handler_remove_patient", <<pid, confirm>>, r.ret)
         /\ saved' = SavedBy(r, r.patients)
  /\ pre' = db
  /\ calls' = calls + 1
  /\ UNCHANGED log
  /\ UNCHANGED session

\* functions.show_temporal_trends(parent, db)
ShowTemporalTrends ==
  /\ op' = Call("show_temporal_trends", <<>>, show_temporal_trends(db))
  /\ pre' = db
  /\ calls' = calls + 1
  /\ UNCHANGED <<db, dataFile, notesFile, log, saved>>
  /\ UNCHANGED session

\* functions.view_notes(parent, db)
ViewNotes(pid, ds) ==
  /\ op' = Call("view_notes", <<pid, ds>>, view_notes(db, pid, ds))
  /\ pre' = db
  /\ calls' = calls + 1
  /\ UNCHANGED <<db, dataFile, notesFile, log, saved>>
  /\ UNCHANGED session

\* CredentialsManager(file).authenticate(username, password) at the login
\* form, for a file the manager can be made from
Authenticate(file, username, password) ==
  /\ session.user = <<>>
  /\ CredentialsManager[file].raised = ""
  /\ op' = Call("authenticate", <<file, username, password>>,
                authenticate(CredentialsManager[file].credentials, username, password))
  /\ pre' = db
  /\ calls' = calls + 1
  /\ UNCHANGED <<db, dataFile, notesFile, log, saved, session>>

\* The Login button: PatientApp.authenticate, and on success dispatch_user
\* (the store loaded from the two files) and show_actions.
Login(file, username_entry, password_entry) ==
  /\ session.user = <<>>
  /\ LET r == login(CredentialsManager[file], username_entry, password_entry)
     IN  /\ op' = Call("login", <<file, username_entry, password_entry>>,
                       [kind |-> "login", outcome |-> r.outcome, auth |-> r.auth])
         /\ IF r.user = <<>>
              THEN UNCHANGED <<db, session>>
              ELSE /\ db' = load_notes_data(load_data(<<>>, dataFile), notesFile)
                   /\ session' = [user |-> r.user,
                                  buttons |-> show_actions(r.user[1].cls)]
  /\ pre' = db
  /\ calls' = calls + 1
  /\ UNCHANGED <<dataFile, notesFile, log, saved>>

\* An action button of the session is pressed and execute_action calls the
\* handler of that action.
Pressed(action, handler) ==
  /\ session.user # <<>>
  /\ action \in Range(session.buttons)
  /\ execute_action(action) = handler

(***************************************************************************)
(* SpecRecord: add_visit and add_notes_to_visit on the records of a store  *)
(* that holds two patients without visits.                                 *)
(***************************************************************************)
InitRecord ==
  /\ db = <<[k |-> "p1", val |-> PatientRecord("p1")],
            [k |-> "p2", val |-> PatientRecord("p2")]>>
  /\ dataFile = NoFile
  /\ notesFile = NoFile
  /\ op = NoCall
  /\ pre = db
  /\ log = <<>>
  /\ saved = NothingSaved
  /\ calls = 0
  /\ session = NoSession

NextRecord ==
  \/ \E pid \in Pids, vid \in Vids, data \in RecordData, notes \in {<<>>, <<Note1>>} :
       calls < MaxRecordCalls /\ AddVisit(pid, vid, data, notes)
  \/ \E pid \in Pids, vid \in Vids :
       calls < MaxRecordCalls /\ AddNotesToVisit(pid, vid, Note2)

SpecRecord == InitRecord /\ [][NextRecord]_vars

(***************************************************************************)
(* Spec: an empty store, loaded from files, queried and removed from.      *)
(***************************************************************************)
Init ==
  /\ db = <<>>
  /\ dataFile = NoFile
  /\ notesFile = NoFile
  /\ op = NoCall
  /\ pre = db
  /\ log = <<>>
  /\ saved = NothingSaved
  /\ calls = 0
  /\ session = NoSession

Next ==
  \/ \E file \in DataFiles : calls < MaxStoreCalls /\ LoadData(file)
  \/ \E file \in NotesFiles : calls < MaxStoreCalls /\ LoadNotesData(file)
  \/ \E pid \in QueryPids : calls < MaxStoreCalls /\ RemovePatient(pid)
  \/ \E pid \in QueryPids, key \in QueryKeys :
       calls < MaxStoreCalls /\ RetrievePatientInfo(pid, key)
  \/ \E day \in QueryDays : calls < MaxStoreCalls /\ CountVisitsInDay(day)

Spec == Init /\ [][Next]_vars

(***************************************************************************)
(* SpecApp: the application's two files as found on disk, a session loaded *)
(* from them, the two handlers that change the store, and the saves.       *)
(***************************************************************************)
InitApp ==
  /\ db = <<>>
  /\ dataFile \in DataFiles
  /\ notesFile \in NotesFiles
  /\ op = NoCall
  /\ pre = db
  /\ log = <<>>
  /\ saved = NothingSaved
  /\ calls = 0
  /\ session = NoSession

NextApp ==
  \/ calls < MaxAppCalls /\ DispatchUser
  \/ \E answers \in AddPatientAnswers :
       calls < MaxAppCalls /\ AddPatientHandler(answers.pid, answers.pair, "u1")
  \/ \E answers \in RemovePatientAnswers :
       calls < MaxAppCalls /\ RemovePatientHandler(answers.pid, answers.confirm)
  \/ \E fieldnames \in ColumnOrders : calls < MaxAppCalls /\ SaveVisitData(fieldnames)
  \/ calls < MaxAppCalls /\ SaveVisitNotes

SpecApp == InitApp /\ [][NextApp]_vars

(***************************************************************************)
(* SpecQuery: a store as a session loads it from the two files, visits     *)
(* added to its patients, and the queries by date: the yearly trend, the   *)
(* count of a day and the notes of a patient on a day.                     *)
(***************************************************************************)
InitQuery ==
  /\ db \in {load_notes_data(load_data(<<>>, d), n) : d \in DataFiles, n \in NotesFiles}
  /\ dataFile = NoFile
  /\ notesFile = NoFile
  /\ op = NoCall
  /\ pre = db
  /\ log = <<>>
  /\ saved = NothingSaved
  /\ calls = 0
  /\ session = NoSession

NextQuery ==
  \/ \E pid \in Pids, data \in QueryData :
       calls < MaxQueryCalls /\ AddVisit(pid, "v1", data, <<Note1>>)
  \/ calls < MaxQueryCalls /\ ShowTemporalTrends
  \/ \E day \in PromptedDays : calls < MaxQueryCalls /\ CountVisitsInDay(day)
  \/ \E answers \in ViewNotesAnswers :
       calls < MaxQueryCalls /\ ViewNotes(answers.pid, answers.ds)

SpecQuery == InitQuery /\ [][NextQuery]_vars

(***************************************************************************)
(* SpecSession: the application from its login form: logins with the       *)
(* credentials file found, and in the session the actions of the buttons   *)
(* shown.                                                                  *)
(***************************************************************************)
InitSession ==
  /\ db = <<>>
  /\ dataFile = DataFile1
  /\ notesFile = NotesFile1
  /\ op = NoCall
  /\ pre = db
  /\ log = <<>>
  /\ saved = NothingSaved
  /\ calls = 0
  /\ session = NoSession

NextSession ==
  \/ \E file \in CredFiles, username \in TypedUsernames, password \in TypedPasswords :
       calls < MaxSessionCalls /\ Authenticate(file, username, password)
  \/ \E attempt \in LoginAttempts :
       calls < MaxSessionCalls /\ Login(attempt.file, attempt.username, attempt.password)
  \/ \E answers \in AddPatientAnswers :
       /\ calls < MaxSessionCalls
       /\ Pressed("add_patient", "handler_add_patient")
       /\ AddPatientHandler(answers.pid, answers.pair, "u1")
  \/ \E answers \in RemovePatientAnswers :
       /\ calls < MaxSessionCalls
       /\ Pressed("remove_patient", "handler_remove_patient")
       /\ RemovePatientHandler(answers.pid, answers.confirm)
  \/ \E pid \in QueryPids, key \in RetrieveFields :
       /\ calls < MaxSessionCalls
       /\ Pressed("retrieve_patient", "retrieve_patient_info")
       /\ RetrievePatientInfo(pid, key)
  \/ \E day \in PromptedDays :
       /\ calls < MaxSessionCalls
       /\ Pressed("count_visits", "count_visits_in_day")
       /\ CountVisitsInDay(day)
  \/ \E answers \in ViewNotesAnswers :
       /\ calls < MaxSessionCalls
       /\ Pressed("view_note", "view_notes")
       /\ ViewNotes(answers.pid, answers.ds)
  \/ /\ calls < MaxSessionCalls
     /\ Pressed("show_temporal_trends", "show_temporal_trends")
     /\ ShowTemporalTrends

SpecSession == InitSession /\ [][NextSession]_vars

(***************************************************************************)
(* SpecGrow: an empty store that is loaded from files and whose records    *)
(* get visits and notes added, in any order.                               *)
(***************************************************************************)
NextGrow ==
  \/ \E pid \in Pids, vid \in Vids, data \in RecordData :
       calls < MaxGrowCalls /\ AddVisit(pid, vid, data, <<Note1>>)
  \/ \E pid \in Pids, vid \in Vids :
       calls < MaxGrowCalls /\ AddNotesToVisit(pid, vid, Note2)
  \/ \E file \in DataFiles : calls < MaxGrowCalls /\ LoadData(file)
  \/ \E file \in NotesFiles : calls < MaxGrowCalls /\ LoadNotesData(file)

SpecGrow == Init /\ [][NextGrow]_vars
(***************************************************************************)
(* Vocabulary of the properties.                                           *)
(***************************************************************************)
\* The (patient, visit) pairs of a store, and the visit of a pair.
VisitPairs(patients) ==
  UNION {{<<patients[p].k, patients[p].val.visits[i].k>> :
            i \in DOMAIN patients[p].val.visits} : p \in DOMAIN patients}

VisitAt(patients, pid, vid) == Lookup(Lookup(patients, pid).visits, vid)

\* The order of the keys of an ordered dict.
KeyOrder(d) == [i \in DOMAIN d |-> d[i].k]

\* Every visit of the store but (pid, vid) is in the other store, unchanged.
OthersUnchanged(before, after, pid, vid) ==
  \A pv \in VisitPairs(before) \ {<<pid, vid>>} :
    /\ pv \in VisitPairs(after)
    /\ VisitAt(after, pv[1], pv[2]) = VisitAt(before, pv[1], pv[2])

(***************************************************************************)
(* C6: after any sequence of add_visit calls, the field map of a visit     *)
(* holds, for each key supplied by a call on that visit, the value of the  *)
(* last call that supplied it, and no other key; a call deletes no key of  *)
(* its visit and changes no other visit.                                   *)
(***************************************************************************)
CallsOn(pid, vid) == {i \in DOMAIN log : log[i].pid = pid /\ log[i].vid = vid}

LastSupplying(pid, vid, key) ==
  CHOOSE i \in CallsOn(pid, vid) :
    /\ key \in DOMAIN log[i].data
    /\ \A j \in CallsOn(pid, vid) : key \in DOMAIN log[j].data => j <= i

C6_LastWriteWins ==
  /\ \A pid \in Pids, vid \in Vids :
       /\ <<pid, vid>> \in VisitPairs(db) <=> CallsOn(pid, vid) # {}
       /\ <<pid, vid>> \in VisitPairs(db) =>
            LET data == VisitAt(db, pid, vid).data
            IN  /\ DOMAIN data = UNION {DOMAIN log[i].data : i \in CallsOn(pid, vid)}
                /\ \A key \in DOMAIN data :
                     data[key] = log[LastSupplying(pid, vid, key)].data[key]
  /\ op.name = "add_visit" =>
       /\ OthersUnchanged(pre, db, op.args[1], op.args[2])
       /\ <<op.args[1], op.args[2]>> \in VisitPairs(pre) =>
            DOMAIN VisitAt(pre, op.args[1], op.args[2]).data \subseteq
              DOMAIN VisitAt(db, op.args[1], op.args[2]).data

\* Two calls on one visit gave different values for a key, the earlier one
\* also a key the later one lacks, and the patient has another visit.
C6_Witness ==
  \E i, j \in DOMAIN log :
    /\ i < j
    /\ log[i].pid = log[j].pid
    /\ log[i].vid = log[j].vid
    /\ \E key \in DOMAIN log[i].data \cap DOMAIN log[j].data :
         log[i].data[key] # log[j].data[key]
    /\ DOMAIN log[i].data \ DOMAIN log[j].data # {}
    /\ \E vid \in Vids : vid # log[i].vid /\ <<log[i].pid, vid>> \in VisitPairs(db)

(***************************************************************************)
(* C7: add_notes_to_visit on a visit the patient lacks returns False and   *)
(* leaves the store as it was; on a visit the patient has it returns True, *)
(* appends the note at the end of that visit's notes and changes nothing   *)
(* else.                                                                   *)
(***************************************************************************)
C7_AddNote ==
  op.name = "add_notes_to_visit" =>
    LET pid == op.args[1]
        vid == op.args[2]
        had == <<pid, vid>> \in VisitPairs(pre)
    IN  /\ op.ret.val = had
        /\ ~had => db = pre
        /\ had =>
             /\ VisitAt(db, pid, vid).notes =
                  Append(VisitAt(pre, pid, vid).notes, op.args[3])
             /\ Len(VisitAt(db, pid, vid).notes) =
                  Len(VisitAt(pre, pid, vid).notes) + 1
             /\ VisitAt(db, pid, vid).data = VisitAt(pre, pid, vid).data
             /\ VisitPairs(db) = VisitPairs(pre)
             /\ KeyOrder(db) = KeyOrder(pre)
             /\ OthersUnchanged(pre, db, pid, vid)

\* The call was made on a visit the patient lacks while the patient has
\* another visit, with notes.
C7_Witness ==
  /\ op.name = "add_notes_to_visit"
  /\ <<op.args[1], op.args[2]>> \notin VisitPairs(pre)
  /\ \E vid \in Vids :
       /\ <<op.args[1], vid>> \in VisitPairs(db)
       /\ VisitAt(db, op.args[1], vid).notes # <<>>
(***************************************************************************)
(* C8: remove_patient returns True exactly when the patient is in the      *)
(* store; afterwards the patient is absent from the store and from the     *)
(* flat visit rows and flat note rows, every other patient's record is as  *)
(* it was, and removing the same id again at once returns False.           *)
(***************************************************************************)
C8_Remove ==
  op.name = "remove_patient" =>
    LET pid == op.args[1]
    IN  /\ op.ret.val = (pid \in Keys(pre))
        /\ pid \notin Keys(db)
        /\ \A i \in DOMAIN get_visit_data_rows(db) :
             get_visit_data_rows(db)[i]["Patient_ID"] # Str(pid)
        /\ \A i \in DOMAIN get_visit_notes_rows(db) :
             get_visit_notes_rows(db)[i]["Patient_ID"] # Str(pid)
        /\ Keys(db) = Keys(pre) \ {pid}
        /\ \A other \in Keys(db) : Lookup(db, other) = Lookup(pre, other)
        /\ (op.prev.name = "remove_patient" /\ op.prev.args = op.args) =>
             op.ret.val = FALSE

\* A patient with visits and notes was removed (True) and removed again
\* (False), while another patient with notes stays in the store.
C8_Witness ==
  /\ op.name = "remove_patient"
  /\ op.prev.name = "remove_patient"
  /\ op.prev.args = op.args
  /\ op.prev.ret.val = TRUE
  /\ op.ret.val = FALSE
  /\ get_visit_notes_rows(db) # <<>>

(***************************************************************************)
(* C9: retrieve_patient_info returns None exactly when the patient is not  *)
(* in the store; otherwise the list that holds, visit by visit in the      *)
(* order of the patient's visits, the visit's own value of the key (if it  *)
(* has one) and then the value of the key in each of the visit's notes, in *)
(* note order; the store is unchanged.                                     *)
(***************************************************************************)
ValuesOfVisit(vr, key) ==
  LET having == SelectSeq(vr.notes, LAMBDA note : key \in DOMAIN note)
  IN  (IF key \in DOMAIN vr.data THEN <<vr.data[key]>> ELSE <<>>) \o
      [j \in DOMAIN having |-> having[j][key]]

C9_FieldValues ==
  op.name = "retrieve_patient_info" =>
    LET pid == op.args[1]
        key == op.args[2]
    IN  /\ db = pre
        /\ op.ret.kind = "None" <=> pid \notin Keys(db)
        /\ pid \in Keys(db) =>
             /\ op.ret.kind = "list"
             /\ op.ret.val =
                  Flatten([i \in DOMAIN Lookup(db, pid).visits |->
                             ValuesOfVisit(Lookup(db, pid).visits[i].val, key)])

\* The list holds a visit's own value, then two notes' values, then the
\* next visit's own value.
C9_Witness ==
  /\ op.name = "retrieve_patient_info"
  /\ op.ret.kind = "list"
  /\ Len(op.ret.val) >= 4
  /\ LET visits == Lookup(db, op.args[1]).visits
     IN  /\ Len(visits) >= 2
         /\ op.args[2] \in DOMAIN visits[1].val.data
         /\ Len(visits[1].val.notes) >= 2
         /\ op.args[2] \in DOMAIN visits[2].val.data

(***************************************************************************)
(* C10: load_notes_data takes the rows of the notes file in order: a row   *)
(* with non-empty Patient_ID, Visit_ID and Note_ID appends its note to the *)
(* end of the notes of that visit, creating the patient and a visit        *)
(* without fields where absent; any other row changes nothing.  Fields and *)
(* earlier notes stay as they were, so loading a file twice leaves its     *)
(* notes twice.                                                            *)
(***************************************************************************)
\* The rows of a notes file (header Patient_ID, Visit_ID, Note_ID, Note_text)
\* that carry the three ids.
ValidNoteRows(file) ==
  IF ~file.exists THEN <<>>
  ELSE SelectSeq(file.rows,
                 LAMBDA r : Len(r) >= 3 /\ r[1] # "" /\ r[2] # "" /\ r[3] # "")

\* The notes the file holds for a visit, in file order.
NotesInFile(file, pid, vid) ==
  LET rs == SelectSeq(ValidNoteRows(file), LAMBDA r : r[1] = pid /\ r[2] = vid)
  IN  [j \in DOMAIN rs |->
         [Note_ID |-> Str(rs[j][3]),
          Note_text |-> IF Len(rs[j]) >= 4 THEN Str(rs[j][4]) ELSE None]]

C10_LoadNotes ==
  (op.name = "load_notes_data" /\ op.args[1].header = notes_fieldnames) =>
    LET file == op.args[1]
        named == {<<r[1], r[2]>> : r \in Range(ValidNoteRows(file))}
    IN  /\ VisitPairs(db) = VisitPairs(pre) \cup named
        /\ Keys(db) = Keys(pre) \cup {pv[1] : pv \in named}
        /\ \A pv \in VisitPairs(db) :
             LET was == IF pv \in VisitPairs(pre) THEN VisitAt(pre, pv[1], pv[2])
                        ELSE VisitRecord(EmptyDict, <<>>)
                 now == VisitAt(db, pv[1], pv[2])
                 added == NotesInFile(file, pv[1], pv[2])
             IN  /\ now.data = was.data
                 /\ now.notes = was.notes \o added
                 /\ (op.prev.name = "load_notes_data" /\ op.prev.args = op.args) =>
                      /\ Len(now.notes) >= 2 * Len(added)
                      /\ SubSeq(now.notes, Len(now.notes) - 2 * Len(added) + 1,
                                Len(now.notes)) = added \o added

\* A notes file with rows to skip, a short row and a visit the store lacks
\* was loaded twice in a row into a store that holds fields.
C10_Witness ==
  /\ op.name = "load_notes_data"
  /\ op.prev.name = "load_notes_data"
  /\ op.prev.args = op.args
  /\ Len(ValidNoteRows(op.args[1])) < Len(op.args[1].rows)
  /\ \E pv \in VisitPairs(db) :
       /\ VisitAt(db, pv[1], pv[2]).data # EmptyDict
       /\ Len(VisitAt(db, pv[1], pv[2]).notes) >= 2
       /\ \E i \in DOMAIN VisitAt(db, pv[1], pv[2]).notes :
            VisitAt(db, pv[1], pv[2]).notes[i].Note_text = None
  /\ \E pv \in VisitPairs(db) : VisitAt(db, pv[1], pv[2]).data = EmptyDict
(***************************************************************************)
(* C4: for a day that parses, count_visits_in_day returns an integer on    *)
(* every store: a visit whose Visit_time is missing, empty, None or        *)
(* unparsable is skipped and never makes the call raise.                   *)
(***************************************************************************)
DayParses(day) == strptime(Strip(Chars[day])).ok

C4_CountNeverRaises ==
  (op.name = "count_visits_in_day" /\ DayParses(op.args[1])) =>
    op.ret.kind = "int"

(***************************************************************************)
(* C5: count_visits_in_day returns None exactly when the day does not      *)
(* parse as month/day/year; when it parses, the result is the number of    *)
(* visits, over all patients, whose own Visit_time parses to that date     *)
(* (0 when there is none), and the store is unchanged.                     *)
(***************************************************************************)
\* The date of a visit, NoDate for a Visit_time that is missing, None or
\* unparsable.
DateOfVisit(vr) ==
  IF "Visit_time" \in DOMAIN vr.data /\ vr.data["Visit_time"].tag = "str"
    THEN strptime(Strip(Chars[vr.data["Visit_time"].v]))
    ELSE NoDate

VisitsOn(patients, day) ==
  {pv \in VisitPairs(patients) : DateOfVisit(VisitAt(patients, pv[1], pv[2])) = day}

C5_CountResult ==
  op.name = "count_visits_in_day" =>
    /\ db = pre
    /\ op.ret.kind = "None" <=> ~DayParses(op.args[1])
    /\ DayParses(op.args[1]) =>
         /\ op.ret.kind = "int"
         /\ op.ret.val =
              Cardinality(VisitsOn(db, strptime(Strip(Chars[op.args[1]]))))

\* The statement of C5 on the stores in which every Visit_time is a string.
C5_OnStringTimes ==
  (\A pv \in VisitPairs(db) :
     DictGet(VisitAt(db, pv[1], pv[2]).data, "Visit_time", Str("")).tag = "str")
    => C5_CountResult
(***************************************************************************)
(* The round trip: the store and the columns the two files were last       *)
(* written from, when a session has just been loaded from them.            *)
(***************************************************************************)
RoundTrip ==
  /\ op.name = "dispatch_user"
  /\ saved.data # <<>>
  /\ saved.notes # <<>>
  /\ saved.data[1].patients = saved.notes[1].patients

SavedStore == saved.data[1].patients

SavedColumns == saved.data[1].fieldnames

IdColumns == {"Patient_ID", "Visit_ID"}

\* The text a value is written as.
AsText(x) == IF x = None THEN "" ELSE x.v

(***************************************************************************)
(* C1 as stated: for a store whose field names are all in column_order,    *)
(* saving both files and loading them into a fresh store gives the same    *)
(* (patient, visit, field map) triples, hence equal key sets, and for      *)
(* every visit the same notes in the same order.                           *)
(***************************************************************************)
Triples(patients) ==
  {<<pv[1], pv[2], VisitAt(patients, pv[1], pv[2]).data>> : pv \in VisitPairs(patients)}

C1_RoundTripExact ==
  (/\ RoundTrip
   /\ \A pv \in VisitPairs(SavedStore) :
        DOMAIN VisitAt(SavedStore, pv[1], pv[2]).data \subseteq Range(SavedColumns))
  => /\ Triples(db) = Triples(SavedStore)
     /\ \A pv \in VisitPairs(SavedStore) :
          VisitAt(db, pv[1], pv[2]).notes = VisitAt(SavedStore, pv[1], pv[2]).notes

(***************************************************************************)
(* C1 amended: for a store whose field names are all columns of            *)
(* column_order other than Patient_ID and Visit_ID (which column_order     *)
(* has) and whose ids and Note_IDs are non-empty, the round trip gives the *)
(* same (patient, visit) pairs; each field map read back has exactly the   *)
(* columns of column_order other than the two ids as keys, each holding    *)
(* the text of the value saved, the empty string for a key that was absent *)
(* or None; each visit has its notes in the same order, every Note_ID and  *)
(* Note_text as its text.                                                  *)
(***************************************************************************)
C1_RoundTripAsText ==
  (/\ RoundTrip
   /\ IdColumns \subseteq Range(SavedColumns)
   /\ \A pv \in VisitPairs(SavedStore) :
        /\ pv[1] # ""
        /\ pv[2] # ""
        /\ DOMAIN VisitAt(SavedStore, pv[1], pv[2]).data \subseteq
             Range(SavedColumns) \ IdColumns
        /\ \A j \in DOMAIN VisitAt(SavedStore, pv[1], pv[2]).notes :
             AsText(VisitAt(SavedStore, pv[1], pv[2]).notes[j].Note_ID) # "")
  => /\ VisitPairs(db) = VisitPairs(SavedStore)
     /\ \A pv \in VisitPairs(SavedStore) :
          LET was == VisitAt(SavedStore, pv[1], pv[2])
              now == VisitAt(db, pv[1], pv[2])
          IN  /\ DOMAIN now.data = Range(SavedColumns) \ IdColumns
              /\ \A key \in DOMAIN now.data :
                   now.data[key] =
                     Str(IF key \in DOMAIN was.data THEN AsText(was.data[key]) ELSE "")
              /\ Len(now.notes) = Len(was.notes)
              /\ \A j \in DOMAIN was.notes :
                   now.notes[j] = [Note_ID |-> Str(AsText(was.notes[j].Note_ID)),
                                   Note_text |-> Str(AsText(was.notes[j].Note_text))]

\* A round trip of a store with a visit that lacks columns and holds None,
\* and a visit with two notes.
C1_Witness ==
  /\ RoundTrip
  /\ \A pv \in VisitPairs(SavedStore) :
       DOMAIN VisitAt(SavedStore, pv[1], pv[2]).data \subseteq
         Range(SavedColumns) \ IdColumns
  /\ \E pv \in VisitPairs(SavedStore) :
       LET was == VisitAt(SavedStore, pv[1], pv[2])
       IN  /\ DOMAIN was.data # Range(SavedColumns) \ IdColumns
           /\ \E key \in DOMAIN was.data : was.data[key] = None
  /\ \E pv \in VisitPairs(SavedStore) :
       Len(VisitAt(SavedStore, pv[1], pv[2]).notes) >= 2

(***************************************************************************)
(* C2: save_visit_data on a store in which a visit has a field that is not *)
(* in column_order completes without error and writes the header and one   *)
(* row for every visit, the field left out.                                *)
(***************************************************************************)
HasFieldOutside(patients, fieldnames) ==
  \E pv \in VisitPairs(patients) :
    ~(DOMAIN VisitAt(patients, pv[1], pv[2]).data \subseteq Range(fieldnames))

C2_SaveDropsField ==
  (op.name = "save_visit_data" /\ HasFieldOutside(db, op.args[1])) =>
    /\ op.ret.kind # "raise"
    /\ dataFile.exists
    /\ dataFile.header = op.args[1]
    /\ Len(dataFile.rows) = Cardinality(VisitPairs(db))

(***************************************************************************)
(* C3: every run of the add_patient or remove_patient handler that changes *)
(* the store rewrites both the visit data file and the visit notes file    *)
(* before it returns, also when the user cancels a later prompt.           *)
(***************************************************************************)
C3_ChangeIsSaved ==
  (op.name \in {"handler_add_patient", "handler_remove_patient"} /\ db # pre) =>
    (op.ret.savedData /\ op.ret.savedNotes)

\* What C3 says of the runs whose saves do not raise and in which
\* collect_visit_data is not cancelled.
C3_ChangeIsSavedUnlessCancelled ==
  (/\ op.name \in {"handler_add_patient", "handler_remove_patient"}
   /\ db # pre
   /\ ~op.ret.raised
   /\ op.name = "handler_add_patient" => op.args[2] # <<>>)
  => (op.ret.savedData /\ op.ret.savedNotes)

(***************************************************************************)
(* C11: load_data of a path that does not exist leaves the store as it     *)
(* was.  Otherwise the rows are taken in file order: a row whose           *)
(* Patient_ID or Visit_ID is empty or missing changes nothing and the load *)
(* goes on; every other row merges all its other columns into the fields   *)
(* of its (patient, visit), so that for each key the last row of the file  *)
(* for that visit gives the value and keys no row has stay as they were;   *)
(* patients are created in the order of their first row; the notes of      *)
(* every visit stay as they were.                                          *)
(***************************************************************************)
\* The row dicts of a data file, and the positions of those that carry both
\* ids.
RowsOfFile(file) == IF file.exists THEN DictReader(file) ELSE <<>>

ValidDataRows(file) ==
  {i \in DOMAIN RowsOfFile(file) :
     /\ Truthy(DictGet(RowsOfFile(file)[i], "Patient_ID", None))
     /\ Truthy(DictGet(RowsOfFile(file)[i], "Visit_ID", None))}

DataRowsFor(file, pid, vid) ==
  {i \in ValidDataRows(file) :
     /\ RowsOfFile(file)[i]["Patient_ID"].v = pid
     /\ RowsOfFile(file)[i]["Visit_ID"].v = vid}

\* The pairs of a data file in the order of their first valid row.
RECURSIVE FirstPids(_, _, _)
FirstPids(file, i, seen) ==
  IF i > Len(RowsOfFile(file)) THEN <<>>
  ELSE IF i \in ValidDataRows(file) /\ RowsOfFile(file)[i]["Patient_ID"].v \notin seen
    THEN <<RowsOfFile(file)[i]["Patient_ID"].v>> \o
         FirstPids(file, i + 1, seen \cup {RowsOfFile(file)[i]["Patient_ID"].v})
  ELSE FirstPids(file, i + 1, seen)

C11_LoadData ==
  op.name = "load_data" =>
    LET file == op.args[1]
        rows == RowsOfFile(file)
        named == {<<rows[i]["Patient_ID"].v, rows[i]["Visit_ID"].v>> :
                    i \in ValidDataRows(file)}
    IN  /\ ~file.exists => db = pre
        /\ VisitPairs(db) = VisitPairs(pre) \cup named
        /\ KeyOrder(db) = KeyOrder(pre) \o FirstPids(file, 1, Keys(pre))
        /\ \A pv \in VisitPairs(db) :
             LET was == IF pv \in VisitPairs(pre) THEN VisitAt(pre, pv[1], pv[2])
                        ELSE VisitRecord(EmptyDict, <<>>)
                 now == VisitAt(db, pv[1], pv[2])
                 mine == DataRowsFor(file, pv[1], pv[2])
                 last == IF mine = {} THEN 0
                         ELSE CHOOSE i \in mine : \A j \in mine : j <= i
             IN  /\ now.notes = was.notes
                 /\ DOMAIN now.data =
                      DOMAIN was.data \cup
                        UNION {DOMAIN rows[i] \ IdColumns : i \in mine}
                 /\ \A key \in DOMAIN now.data :
                      now.data[key] =
                        IF last # 0 /\ key \in DOMAIN rows[last]
                          THEN rows[last][key] ELSE was.data[key]

\* A file with a row to skip and a visit on two rows was loaded into a store
\* in which that visit had notes and a field the file has no column for.
C11_Witness ==
  /\ op.name = "load_data"
  /\ op.args[1].exists
  /\ Cardinality(ValidDataRows(op.args[1])) < Len(op.args[1].rows)
  /\ \E pv \in VisitPairs(pre) :
       /\ Cardinality(DataRowsFor(op.args[1], pv[1], pv[2])) >= 2
       /\ VisitAt(pre, pv[1], pv[2]).notes # <<>>
       /\ DOMAIN VisitAt(pre, pv[1], pv[2]).data \ Range(op.args[1].header) # {}
  /\ VisitPairs(db) # VisitPairs(pre)

(***************************************************************************)
(* C12: the yearly trend of a store is one (year, count) row for each      *)
(* calendar year in which a visit has a date that parses, count the number *)
(* of visits whose date parses into that year; the rows are in strictly    *)
(* ascending year order, visits whose date is missing or does not parse    *)
(* are skipped, the counts add up to the number of visits with a date that *)
(* parses, and a store without such a visit gives the "No Data" outcome;   *)
(* the store is unchanged.                                                 *)
(***************************************************************************)
DatedVisits(patients) ==
  {pv \in VisitPairs(patients) : DateOfVisit(VisitAt(patients, pv[1], pv[2])).ok}

VisitsInYear(patients, year) ==
  {pv \in DatedVisits(patients) : DateOfVisit(VisitAt(patients, pv[1], pv[2])).y = year}

RECURSIVE SumOfCounts(_)
SumOfCounts(pairs) ==
  IF pairs = <<>> THEN 0 ELSE Head(pairs)[2] + SumOfCounts(Tail(pairs))

C12_YearlyTrend ==
  op.name = "show_temporal_trends" =>
    /\ db = pre
    /\ op.ret.kind = "No Data" <=> DatedVisits(db) = {}
    /\ DatedVisits(db) # {} =>
         /\ op.ret.kind = "table"
         /\ {op.ret.val[i][1] : i \in DOMAIN op.ret.val} =
              {DateOfVisit(VisitAt(db, pv[1], pv[2])).y : pv \in DatedVisits(db)}
         /\ \A i \in DOMAIN op.ret.val :
              op.ret.val[i][2] = Cardinality(VisitsInYear(db, op.ret.val[i][1]))
         /\ \A i, j \in DOMAIN op.ret.val : i < j => op.ret.val[i][1] < op.ret.val[j][1]
         /\ SumOfCounts(op.ret.val) = Cardinality(DatedVisits(db))

\* The trend of a store whose first dated visit is in a later year than
\* another one, with two visits in one year and a visit that is skipped.
C12_Witness ==
  /\ op.name = "show_temporal_trends"
  /\ op.ret.kind = "table"
  /\ Len(op.ret.val) >= 2
  /\ \E i \in DOMAIN op.ret.val : op.ret.val[i][2] >= 2
  /\ DatedVisits(db) # VisitPairs(db)
  /\ LET first == CHOOSE i \in DOMAIN AllVisitData(db) :
                     /\ DateOfVisit([data |-> AllVisitData(db)[i]]).ok
                     /\ \A j \in 1..(i - 1) :
                          ~DateOfVisit([data |-> AllVisitData(db)[j]]).ok
     IN  DateOfVisit([data |-> AllVisitData(db)[first]]).y > op.ret.val[1][1]

(***************************************************************************)
(* C13: for every username and password, authenticate returns the stored   *)
(* role exactly when the trimmed, lower-cased username is a key of the     *)
(* credential table and the password equals the stored secret; in every    *)
(* other case it returns None and never raises, so that an unknown user    *)
(* and a known user with a wrong password get the same outcome.            *)
(***************************************************************************)
C13_Authenticate ==
  op.name = "authenticate" =>
    LET credentials == CredentialsManager[op.args[1]].credentials
        key == Lower(Strip(op.args[2]))
        right == /\ key \in Keys(credentials)
                 /\ Lookup(credentials, key).password = op.args[3]
    IN  /\ op.ret.kind # "raise"
        /\ right => op.ret = RetStr(Lookup(credentials, key).role)
        /\ ~right => op.ret = RetNone

\* What C13 says of the passwords that are ASCII throughout.
C13_OnAsciiPasswords ==
  (op.name = "authenticate" /\ IsAscii(op.args[3])) => C13_Authenticate

(***************************************************************************)
(* C14: in every session, each handler that execute_action calls is the    *)
(* handler of an action the logged-in user can execute: an admin session   *)
(* only runs count_visits, a management session only show_temporal_trends, *)
(* nurse and clinician sessions have the same actions, and add_patient and *)
(* remove_patient never run in an admin or management session; without a   *)
(* session no handler runs.                                                *)
(***************************************************************************)
Handlers ==
  {"handler_add_patient", "handler_remove_patient", "retrieve_patient_info",
   "count_visits_in_day", "view_notes", "show_temporal_trends"}

\* The action whose handler the last call was.
ActionRun ==
  CHOOSE action \in {"add_patient", "remove_patient", "retrieve_patient",
                     "count_visits", "view_note", "show_temporal_trends"} :
    execute_action(action) = op.name

\* The user class of the session: the class ROLE_MAP gives for the role the
\* credentials file holds for the user.
SessionClass == session.user[1].cls

C14_RoleDispatch ==
  /\ op.name \in Handlers =>
       /\ session.user # <<>>
       /\ can_execute(SessionClass, ActionRun)
       /\ SessionClass = ROLE_MAP(Lower(session.user[1].role))
       /\ SessionClass = "AdminUser" => ActionRun = "count_visits"
       /\ SessionClass = "ManagerUser" => ActionRun = "show_temporal_trends"
       /\ SessionClass \in {"AdminUser", "ManagerUser"} =>
            /\ op.name \notin {"handler_add_patient", "handler_remove_patient"}
            /\ db = pre
  /\ session.user # <<>> =>
       /\ session.buttons = get_actions(SessionClass)
       /\ SessionClass \in {"AdminUser", "ManagerUser", "ClinicianUser", "NurseUser"}
  /\ get_actions("NurseUser") = get_actions("ClinicianUser")

\* A handler has run in a session of a user whose role is written in the
\* credentials file in another case than the key of ROLE_MAP.
C14_Witness ==
  /\ op.name \in Handlers
  /\ session.user # <<>>
  /\ SessionClass \in {"AdminUser", "ManagerUser"}
  /\ session.user[1].role # Lower(session.user[1].role)

(***************************************************************************)
(* C15: across add_visit, add_notes_to_visit, load_data and                *)
(* load_notes_data steps, every visit that exists before a step exists     *)
(* after it, its notes before the step are a prefix of its notes after the *)
(* step, and its field keys before the step are a subset of its field keys *)
(* after the step.                                                         *)
(***************************************************************************)
IsPrefix(s, t) == Len(s) <= Len(t) /\ SubSeq(t, 1, Len(s)) = s

C15_OnlyGrows ==
  op.name \in {"add_visit", "add_notes_to_visit", "load_data", "load_notes_data"} =>
    \A pv \in VisitPairs(pre) :
      /\ pv \in VisitPairs(db)
      /\ IsPrefix(VisitAt(pre, pv[1], pv[2]).notes, VisitAt(db, pv[1], pv[2]).notes)
      /\ DOMAIN VisitAt(pre, pv[1], pv[2]).data \subseteq
           DOMAIN VisitAt(db, pv[1], pv[2]).data

\* add_visit has given a visit that had fields and notes from the files a
\* new key, another value for a key it had, and one more note.
C15_Witness ==
  /\ op.name = "add_visit"
  /\ op.prev.name \in {"load_data", "load_notes_data"}
  /\ <<op.args[1], op.args[2]>> \in VisitPairs(pre)
  /\ LET was == VisitAt(pre, op.args[1], op.args[2])
         now == VisitAt(db, op.args[1], op.args[2])
     IN  /\ was.notes # <<>>
         /\ Len(now.notes) > Len(was.notes)
         /\ DOMAIN was.data # {}
         /\ DOMAIN now.data # DOMAIN was.data
         /\ \E key \in DOMAIN was.data : now.data[key] # was.data[key]

(***************************************************************************)
(* C16: from an empty store, load_data(D) followed by load_notes_data(N)   *)
(* gives the same mapping patient -> visit -> (fields, notes) as           *)
(* load_notes_data(N) followed by load_data(D), also when a (patient,      *)
(* visit) is in one of the files only; the visits are those of the valid   *)
(* rows of the two files and each has all the notes N holds for it.        *)
(***************************************************************************)
\* The store as a mapping, the order of insertion left out.
Mapping(patients) ==
  [pid \in Keys(patients) |->
     [vid \in Keys(Lookup(patients, pid).visits) |->
        Lookup(Lookup(patients, pid).visits, vid)]]

\* The last two calls loaded D and then N into the empty store.
LoadedDataThenNotes ==
  /\ calls = 2
  /\ op.name = "load_notes_data"
  /\ op.prev.name = "load_data"

C16_LoadOrder ==
  LoadedDataThenNotes =>
    LET D == op.prev.args[1]
        N == op.args[1]
        other == load_data(load_notes_data(<<>>, N), D)
        inData == {<<RowsOfFile(D)[i]["Patient_ID"].v, RowsOfFile(D)[i]["Visit_ID"].v>> :
                     i \in ValidDataRows(D)}
        inNotes == {<<r[1], r[2]>> : r \in Range(ValidNoteRows(N))}
    IN  /\ Mapping(db) = Mapping(other)
        /\ VisitPairs(db) = inData \cup inNotes
        /\ \A pv \in VisitPairs(db) :
             /\ VisitAt(db, pv[1], pv[2]).notes = NotesInFile(N, pv[1], pv[2])
             /\ pv \notin inData => VisitAt(db, pv[1], pv[2]).data = EmptyDict

\* The two files share a visit, each has a visit the other lacks, and the
\* two orders of loading insert the patients in different orders.
C16_Witness ==
  /\ LoadedDataThenNotes
  /\ \E pv \in VisitPairs(db) :
       /\ VisitAt(db, pv[1], pv[2]).notes # <<>>
       /\ VisitAt(db, pv[1], pv[2]).data # EmptyDict
  /\ \E pv \in VisitPairs(db) : VisitAt(db, pv[1], pv[2]).notes = <<>>
  /\ \E pv \in VisitPairs(db) : VisitAt(db, pv[1], pv[2]).data = EmptyDict
  /\ KeyOrder(db) # KeyOrder(load_data(load_notes_data(<<>>, op.args[1]), op.prev.args[1]))

(***************************************************************************)
(* C17: view_notes and count_visits_in_day agree on dates: for a target    *)
(* date and a visit with notes, view_notes lists the visit exactly when    *)
(* count_visits_in_day counts it for that date, and a Visit_time that one  *)
(* of the two rejects as unparsable is rejected by the other.              *)
(***************************************************************************)
\* A store that holds the one visit only.
StoreOfVisit(pid, entry) ==
  <<[k |-> pid, val |-> [patient_id |-> pid, visits |-> <<entry>>]]>>

\* view_notes went through the visits of the patient asked for.
ViewedVisits ==
  /\ op.name = "view_notes"
  /\ op.ret.kind \in {"notes", "No Notes"}

C17_DatesAgree ==
  ViewedVisits =>
    LET pid == op.args[1]
        day == op.args[2][1]
        visits == Lookup(db, pid).visits
        listed == {op.ret.val[j].vid : j \in DOMAIN op.ret.val}
    IN  \A i \in DOMAIN visits :
          LET text == Strip(Chars[visits[i].val.data["Visit_time"].v])
              counted == count_visits_in_day(StoreOfVisit(pid, visits[i]), day)
          IN  "Visit_time" \in DOMAIN visits[i].val.data =>
                /\ counted.kind = "int"
                /\ visits[i].val.notes # <<>> =>
                     (visits[i].k \in listed <=> counted.val = 1)
                /\ VisitDateViewed(text).ok <=> strptime(text).ok

\* Where the two agree: on every Visit_time that strptime accepts.
C17_OnTimesStrptimeAccepts ==
  ViewedVisits =>
    \A i \in DOMAIN Lookup(db, op.args[1]).visits :
      LET data == Lookup(db, op.args[1]).visits[i].val.data
      IN  ("Visit_time" \in DOMAIN data /\ strptime(Strip(Chars[data["Visit_time"].v])).ok)
            => VisitDateViewed(Strip(Chars[data["Visit_time"].v])) =
                 strptime(Strip(Chars[data["Visit_time"].v]))
====
